---- MODULE Spec2Model ----
(***************************************************************************)
(* Model of research/object_detection/utils/target_assigner_utils.py.      *)
(*                                                                         *)
(* The module is five pure tensor functions.  Each one is an operator      *)
(* here, computed step by step as the Python computes it, and each has a   *)
(* call action that draws its arguments from bounded sets and stores the   *)
(* arguments and the returned value.                                       *)
(*                                                                         *)
(* Numbers.  float32 tensors are fixed-point integers:                     *)
(*   - coordinates (grids, keypoints, boxes, sigma) count 1/UNIT pixels;   *)
(*   - dimensionless values (gaussians, one-hots, weights, masks) count    *)
(*     1/SCALE, so 1.0 is SCALE.                                           *)
(* NaN, +inf and -inf are reserved integers outside the finite range.      *)
(* Tensors are functions over 0..n-1, so indices are the Python indices.   *)
(* An optional argument is None (the empty tuple) or Some(v).              *)
(***************************************************************************)
EXTENDS Integers, Sequences, FiniteSets, TLC

VARIABLES call, args, ret

vars == <<call, args, ret>>

\* ------------------------------------------------------------------ bounds
UNIT == 2
SCALE == 10000
MaxGridDim == 10
MaxDim == 3
MaxInstances == 2
MaxSigma == 2
MaxPoints == 2
MaxKeypoints == 2
MaxBoxes == 2
MaxChannels == 2
NumClasses == 2
MaxIndices == 2

\* ------------------------------------------------------- float32 encoding
PosInf == 1000000000
NegInf == -PosInf
NaN == PosInf + PosInf

None == << >>
Some(v) == << v >>

\* tf.cast(n, tf.float32) of an integer count of pixels
ToFloat(n) == n * UNIT

\* rounding toward zero in place of the floor
FloorTruncate(v) == IF v >= 0 THEN (v \div UNIT) * UNIT ELSE -(((-v) \div UNIT) * UNIT)

\* no rounding at all
FloorOmitted(v) == v

\* tf.floor / tf.math.floor: largest whole pixel not above v
Floor(v) == (v \div UNIT) * UNIT

\* tf.cast(v, tf.int32) of a float: truncation toward zero
ToInt32(v) == IF v >= 0 THEN v \div UNIT ELSE -((-v) \div UNIT)

\* float multiplication of two dimensionless values
Mul(a, b) == (a * b) \div SCALE

\* the clamp left out
MaximumFirst(a, b) == a

\* tf.maximum on two scalars
Maximum(a, b) == IF a >= b THEN a ELSE b

\* float subtraction, with the infinities
Sub(a, b) ==
  IF a = NaN \/ b = NaN THEN NaN
  ELSE IF a = PosInf THEN (IF b = PosInf THEN NaN ELSE PosInf)
  ELSE IF a = NegInf THEN (IF b = NegInf THEN NaN ELSE NegInf)
  ELSE IF b = PosInf THEN NegInf
  ELSE IF b = NegInf THEN PosInf
  ELSE a - b

MaxOfSet(S) ==
  IF S = {} THEN NegInf
  ELSE CHOOSE y \in S : \A z \in S : y >= z

RECURSIVE SumOver(_, _)
SumOver(f, D) ==
  IF D = {} THEN 0
  ELSE LET i == CHOOSE j \in D : TRUE IN f[i] + SumOver(f, D \ {i})

\* tf.reduce_sum in place of tf.reduce_max
ReduceSum(f) == SumOver(f, DOMAIN f)

\* tf.reduce_max over one axis, given the values along that axis;
\* the maximum of no values is -inf
ReduceMax(f) == MaxOfSet({f[i] : i \in DOMAIN f})

\* ------------------------------------------------------------ grids
\* tf.range(n, dtype=tf.float32)
Range(n) == [i \in 0..(n - 1) |-> ToFloat(i)]

\* number of entries of a 1-D tensor
Size(t) == Cardinality(DOMAIN t)

\* tf.meshgrid with indexing='ij' in place of 'xy': the transposed layout
meshgrid_ij(x_range, y_range) ==
  << [r \in DOMAIN x_range |-> [c \in DOMAIN y_range |-> x_range[r]]],
     [r \in DOMAIN x_range |-> [c \in DOMAIN y_range |-> y_range[c]]] >>

\* tf.meshgrid(x_range, y_range, indexing='xy') -> <<X, Y>>,
\* both of shape [len(y_range), len(x_range)]
meshgrid_xy(x_range, y_range) ==
  << [r \in DOMAIN y_range |-> [c \in DOMAIN x_range |-> x_range[c]]],
     [r \in DOMAIN y_range |-> [c \in DOMAIN x_range |-> y_range[r]]] >>

image_shape_to_grids(height, width) ==
  LET x_range == Range(width)
      y_range == Range(height)
      xy == meshgrid_xy(x_range, y_range)
      x_grid == xy[1]
      y_grid == xy[2]
  IN [y_grid |-> y_grid, x_grid |-> x_grid]

\* ------------------------------------------------------------ offsets
\* tf.stack([a, b], axis=1)
Stack1(a, b) == [i \in DOMAIN a |-> [k \in 0..1 |-> IF k = 0 THEN a[i] ELSE b[i]]]

compute_floor_offsets_with_indices(y_source, x_source, y_target_opt, x_target_opt) ==
  LET y_source_floored == [i \in DOMAIN y_source |-> Floor(y_source[i])]
      x_source_floored == [i \in DOMAIN x_source |-> Floor(x_source[i])]
      y_target == IF y_target_opt = None THEN y_source ELSE y_target_opt[1]
      x_target == IF x_target_opt = None THEN x_source ELSE x_target_opt[1]
      y_offset == [i \in DOMAIN y_target |-> y_target[i] - y_source_floored[i]]
      x_offset == [i \in DOMAIN x_target |-> x_target[i] - x_source_floored[i]]
      y_source_indices ==
        [i \in DOMAIN y_source_floored |-> ToInt32(y_source_floored[i])]
      x_source_indices ==
        [i \in DOMAIN x_source_floored |-> ToInt32(x_source_floored[i])]
      indices == Stack1(y_source_indices, x_source_indices)
      offsets == Stack1(y_offset, x_offset)
  IN [offsets |-> offsets, indices |-> indices]

\* source coordinates -1.5, -1.0, 2.5 and target coordinates -0.5, 5.0
SourceVals == {-(UNIT + UNIT \div 2), -UNIT, 2 * UNIT + UNIT \div 2}
TargetVals == {-(UNIT \div 2), 5 * UNIT}

\* ------------------------------------------------------------ heatmap
\* A 2-D tensor whose leading dimension may be 0 carries its shape.
Tensor2(n, c, val) == [shape |-> <<n, c>>, val |-> val]

\* shape_utils.combined_static_and_dynamic_shape
combined_static_and_dynamic_shape(t) == t.shape

\* exp(-1/den) as the alternating series 1 - 1/den + 1/(2 den^2) - ...
RECURSIVE ExpSeries(_, _, _)
ExpSeries(term, k, den) ==
  IF term = 0 THEN 0
  ELSE term - ExpSeries(term \div (den * k), k + 1, den)

\* acc * base^n by repeated float multiplication
RECURSIVE Pow(_, _, _)
Pow(acc, base, n) ==
  IF n = 0 \/ acc = 0 THEN acc ELSE Pow(Mul(acc, base), base, n - 1)

\* tf.exp(-num / den) for num >= 0, den > 0, with the argument split into
\* its whole and fractional parts: exp(-num/den) = exp(-1/den)^r * exp(-1)^q
ExpNeg(num, den) ==
  Pow(Pow(SCALE, ExpSeries(SCALE, 1, den), num % den),
      ExpSeries(SCALE, 1, 1), num \div den)

coordinates_to_heatmap(y_grid, x_grid, y_coordinates, x_coordinates, sigma, channel_onehot, channel_weights) ==
  LET shape == combined_static_and_dynamic_shape(channel_onehot)
      num_instances == shape[1]
      num_channels == shape[2]
      \* x_grid - floor(x_coordinates), y_grid - floor(y_coordinates)
      x_diff(r, c, i) == x_grid[r][c] - Floor(x_coordinates[i])
      y_diff(r, c, i) == y_grid[r][c] - Floor(y_coordinates[i])
      squared_distance(r, c, i) ==
        x_diff(r, c, i) * x_diff(r, c, i) + y_diff(r, c, i) * y_diff(r, c, i)
      gaussian_map(r, c, i) ==
        ExpNeg(squared_distance(r, c, i), 2 * sigma[i] * sigma[i])
      per_class(r, c, i, ch) ==
        Mul(gaussian_map(r, c, i), channel_onehot.val[i][ch])
      gaussian_per_box_per_class_map(r, c, i, ch) ==
        IF channel_weights # None
        THEN Mul(per_class(r, c, i, ch), channel_weights[1][i])
        ELSE per_class(r, c, i, ch)
      \* tf.reduce_max(..., axis=2)
      reduced(r, c, ch) ==
        ReduceMax([i \in 0..(num_instances - 1) |->
                     gaussian_per_box_per_class_map(r, c, i, ch)])
  IN [r \in DOMAIN x_grid |-> [c \in DOMAIN x_grid[r] |->
        [ch \in 0..(num_channels - 1) |-> Maximum(reduced(r, c, ch), 0)]]]

\* instance centres (y, x) offered to the renderer: (0.5, 1.5) and (2.0, 0)
HeatCentres == { <<UNIT \div 2, UNIT + UNIT \div 2>>, <<2 * UNIT, 0>> }
SigmaVals == 1..MaxSigma
HeatInstances == [yx : HeatCentres, s : SigmaVals]
\* a hard one-hot row on channel 0, and a soft / k-hot row
HardRow(num_channels) ==
  [ch \in 0..(num_channels - 1) |-> IF ch = 0 THEN SCALE ELSE 0]
SoftRow(num_channels) ==
  [ch \in 0..(num_channels - 1) |-> IF ch = 0 THEN SCALE \div 2 ELSE SCALE]
OnehotRows(num_channels) == {HardRow(num_channels), SoftRow(num_channels)}
\* channel_onehot tensors: all rows hard, all rows soft, or alternating
OnehotTensors(n, num_channels) ==
  { [i \in 0..(n - 1) |-> HardRow(num_channels)],
    [i \in 0..(n - 1) |-> SoftRow(num_channels)],
    [i \in 0..(n - 1) |->
       IF i % 2 = 0 THEN HardRow(num_channels) ELSE SoftRow(num_channels)] }
\* channel_weights tensors: weights 2.0 and 0 alternating, or 0.5 and 2.0
WeightTensors(n) ==
  { [i \in 0..(n - 1) |-> IF i % 2 = 0 THEN 2 * SCALE ELSE 0],
    [i \in 0..(n - 1) |-> IF i % 2 = 0 THEN SCALE \div 2 ELSE 2 * SCALE] }

\* ------------------------------------------------------------ keypoints
\* A 3-D tensor whose leading dimension may be 0 carries its shape.
Tensor3(n, k, d, val) == [shape |-> <<n, k, d>>, val |-> val]

\* a NaN test written as a comparison, which is never true of a NaN
IsNanByEquality(v) == FALSE

\* tf.math.is_nan
IsNan(v) == v = NaN

\* the cast that forgets its argument
BoolToFloatOne(b) == SCALE

\* tf.cast(b, dtype=tf.float32) of a boolean
BoolToFloat(b) == IF b THEN SCALE ELSE 0

\* the listed columns taken back to front
GatherReversed(row, indices) ==
  [p \in DOMAIN indices |-> row[indices[(Size(indices) - 1) - p]]]

\* tf.gather(t, indices, axis=1) on one row of t
Gather(row, indices) == [p \in DOMAIN indices |-> row[indices[p]]]

get_valid_keypoint_mask_for_class(keypoint_coordinates, class_id, class_onehot, class_weights, keypoint_indices) ==
  LET num_instances == keypoint_coordinates.shape[1]
      num_keypoints == keypoint_coordinates.shape[2]
      kp == keypoint_coordinates.val
      I == 0..(num_instances - 1)
      K == 0..(num_keypoints - 1)
      class_mask == [i \in I |-> class_onehot[i][class_id]]
      reshaped_class_mask == [i \in I |-> [k \in K |-> class_mask[i]]]
      not_nan == [i \in I |-> [k \in K |-> [d \in 0..1 |-> ~IsNan(kp[i][k][d])]]]
      mask0 == [i \in I |-> [k \in K |->
                  Mul(reshaped_class_mask[i][k], BoolToFloat(not_nan[i][k][0]))]]
      keypoints_nan_to_zeros0 ==
        [i \in I |-> [k \in K |-> [d \in 0..1 |->
           IF not_nan[i][k][d] THEN kp[i][k][d] ELSE 0]]]
      mask1 ==
        IF class_weights # None
        THEN LET reshaped_class_weight ==
                   [i \in I |-> [k \in K |-> class_weights[1][i]]]
             IN [i \in I |-> [k \in K |->
                   Mul(mask0[i][k], reshaped_class_weight[i][k])]]
        ELSE mask0
  IN IF keypoint_indices # None
     THEN [mask |-> [i \in I |-> Gather(mask1[i], keypoint_indices[1])],
           keypoints_nan_to_zeros |->
             [i \in I |-> Gather(keypoints_nan_to_zeros0[i], keypoint_indices[1])]]
     ELSE [mask |-> mask1, keypoints_nan_to_zeros |-> keypoints_nan_to_zeros0]

\* a keypoint is a (y, x) pair, each coordinate NaN or 1.5: both NaN, y NaN
\* only, x NaN only, neither
KeypointPair(y_nan, x_nan) ==
  [d \in 0..1 |-> IF (d = 0 /\ y_nan) \/ (d = 1 /\ x_nan)
                  THEN NaN ELSE UNIT + UNIT \div 2]
KeypointKind(t) == KeypointPair(t % 4 < 2, t % 2 = 0)
\* the keypoints of one instance: consecutive kinds, starting at any of them
KeypointRows(num_keypoints) ==
  { [k \in 0..(num_keypoints - 1) |-> KeypointKind(t + k)] : t \in 0..3 }
KeypointWeightVals == {2 * SCALE}
\* Python lists of 1..MaxIndices column positions
IndexLists(num_keypoints) ==
  UNION {[0..(m - 1) -> 0..(num_keypoints - 1)] : m \in 1..MaxIndices}

\* ------------------------------------------------------------ blackout
\* an interval test that leaves out the upper end
InRangeHalfOpen(v, lo, hi) == v >= lo /\ v < hi

\* tf.logical_and(grid >= min, grid <= max)
InRange(v, lo, hi) == v >= lo /\ v <= hi

blackout_pixel_weights_by_box_regions(height, width, boxes, blackout) ==
  LET g == image_shape_to_grids(height, width)
      y_grid == g.y_grid
      x_grid == g.x_grid
      I == DOMAIN boxes
      y_min == [i \in I |-> boxes[i][0]]
      x_min == [i \in I |-> boxes[i][1]]
      y_max == [i \in I |-> boxes[i][2]]
      x_max == [i \in I |-> boxes[i][3]]
      in_boxes(i, r, c) ==
        BoolToFloat(InRange(y_grid[r][c], y_min[i], y_max[i])
                    /\ InRange(x_grid[r][c], x_min[i], x_max[i]))
      selected_in_boxes(i, r, c) ==
        IF blackout[i] THEN in_boxes(i, r, c) ELSE 0
      out_boxes(r, c) == ReduceMax([i \in I |-> selected_in_boxes(i, r, c)])
  IN [r \in DOMAIN y_grid |-> [c \in DOMAIN y_grid[r] |->
        Sub(SCALE, out_boxes(r, c))]]

\* box corners: y_min in {0, 1.5}, x_min in {0, 0.5},
\* y_max in {1.0, 2.0}, x_max in {0, 1.0}
Boxes ==
  { [k \in 0..3 |-> IF k = 0 THEN y0 ELSE IF k = 1 THEN x0
                    ELSE IF k = 2 THEN y1 ELSE x1] :
      y0 \in {0, UNIT + UNIT \div 2}, x0 \in {0, UNIT \div 2},
      y1 \in {UNIT, 2 * UNIT}, x1 \in {0, UNIT} }

\* ------------------------------------------------------------ actions
Init ==
  /\ call = "none"
  /\ args = None
  /\ ret = None

CallImageShapeToGrids ==
  /\ call = "none"
  /\ \E height \in 0..MaxGridDim, width \in 0..MaxGridDim :
       /\ call' = "image_shape_to_grids"
       /\ args' = [height |-> height, width |-> width]
       /\ ret' = image_shape_to_grids(height, width)

CallCoordinatesToHeatmap ==
  /\ call = "none"
  /\ \E num_channels \in 1..MaxChannels, n \in 0..MaxInstances :
     \E inst \in [0..(n - 1) -> HeatInstances],
        onehot \in OnehotTensors(n, num_channels),
        channel_weights \in {None} \cup {Some(w) : w \in WeightTensors(n)} :
       LET g == image_shape_to_grids(MaxDim, MaxDim - 1)
           a == [y_grid |-> g.y_grid, x_grid |-> g.x_grid,
                 y_coordinates |-> [i \in 0..(n - 1) |-> inst[i].yx[1]],
                 x_coordinates |-> [i \in 0..(n - 1) |-> inst[i].yx[2]],
                 sigma |-> [i \in 0..(n - 1) |-> inst[i].s],
                 channel_onehot |->
                   Tensor2(n, num_channels, onehot),
                 channel_weights |-> channel_weights]
       IN /\ call' = "coordinates_to_heatmap"
          /\ args' = a
          /\ ret' = coordinates_to_heatmap(a.y_grid, a.x_grid,
                      a.y_coordinates, a.x_coordinates, a.sigma,
                      a.channel_onehot, a.channel_weights)

CallComputeFloorOffsetsWithIndices ==
  /\ call = "none"
  /\ \E n \in 1..MaxPoints :
     \E y_source \in [0..(n - 1) -> SourceVals],
        x_source \in [0..(n - 1) -> SourceVals],
        y_target \in {None} \cup {Some(t) : t \in [0..(n - 1) -> TargetVals]},
        x_target \in {None} \cup {Some(t) : t \in [0..(n - 1) -> TargetVals]} :
       /\ call' = "compute_floor_offsets_with_indices"
       /\ args' = [y_source |-> y_source, x_source |-> x_source,
                   y_target |-> y_target, x_target |-> x_target]
       /\ ret' = compute_floor_offsets_with_indices(y_source, x_source,
                                                    y_target, x_target)

CallGetValidKeypointMaskForClass ==
  /\ call = "none"
  /\ \E n \in 1..MaxInstances, class_id \in 0..(NumClasses - 1) :
     \E kp \in [0..(n - 1) -> KeypointRows(MaxKeypoints)],
        class_onehot \in [0..(n - 1) -> OnehotRows(NumClasses)],
        class_weights \in
          {None} \cup {Some(w) : w \in [0..(n - 1) -> KeypointWeightVals]},
        keypoint_indices \in
          {None} \cup {Some(l) : l \in IndexLists(MaxKeypoints)} :
       LET a == [keypoint_coordinates |-> Tensor3(n, MaxKeypoints, 2, kp),
                 class_id |-> class_id,
                 class_onehot |-> class_onehot,
                 class_weights |-> class_weights,
                 keypoint_indices |-> keypoint_indices]
       IN /\ call' = "get_valid_keypoint_mask_for_class"
          /\ args' = a
          /\ ret' = get_valid_keypoint_mask_for_class(a.keypoint_coordinates,
                      a.class_id, a.class_onehot, a.class_weights,
                      a.keypoint_indices)

CallBlackoutPixelWeightsByBoxRegions ==
  /\ call = "none"
  /\ \E n \in 0..MaxBoxes :
     \E boxes \in [0..(n - 1) -> Boxes], blackout \in [0..(n - 1) -> BOOLEAN] :
       /\ call' = "blackout_pixel_weights_by_box_regions"
       /\ args' = [height |-> MaxDim, width |-> MaxDim - 1,
                   boxes |-> boxes, blackout |-> blackout]
       /\ ret' = blackout_pixel_weights_by_box_regions(MaxDim, MaxDim - 1,
                                                       boxes, blackout)

Return ==
  /\ call # "none"
  /\ call' = "none"
  /\ args' = None
  /\ ret' = None

NextGrids == CallImageShapeToGrids \/ Return

SpecGrids == Init /\ [][NextGrids]_vars

NextHeatmap == CallCoordinatesToHeatmap \/ Return

SpecHeatmap == Init /\ [][NextHeatmap]_vars

NextOffsets == CallComputeFloorOffsetsWithIndices \/ Return

SpecOffsets == Init /\ [][NextOffsets]_vars

NextKeypoints == CallGetValidKeypointMaskForClass \/ Return

SpecKeypoints == Init /\ [][NextKeypoints]_vars

NextBlackout == CallBlackoutPixelWeightsByBoxRegions \/ Return

SpecBlackout == Init /\ [][NextBlackout]_vars

\* ============================================================ properties

\* C10: image_shape_to_grids(height, width) returns (y_grid, x_grid), both of
\* shape [height, width], with y_grid[r, c] = r and x_grid[r, c] = c for every
\* pixel; with height or width 0 the grids are empty arrays.
C10_GridValues ==
  call = "image_shape_to_grids" =>
    /\ DOMAIN ret = {"y_grid", "x_grid"}
    /\ DOMAIN ret.y_grid = 0..(args.height - 1)
    /\ DOMAIN ret.x_grid = 0..(args.height - 1)
    /\ \A r \in 0..(args.height - 1) :
         /\ DOMAIN ret.y_grid[r] = 0..(args.width - 1)
         /\ DOMAIN ret.x_grid[r] = 0..(args.width - 1)
         /\ \A c \in 0..(args.width - 1) :
              /\ ret.y_grid[r][c] = r * UNIT
              /\ ret.x_grid[r][c] = c * UNIT

C10_Witness ==
  /\ call = "image_shape_to_grids"
  /\ args.height = 2
  /\ args.width = 3
  /\ ret.y_grid[1][2] = UNIT
  /\ ret.x_grid[1][2] = 2 * UNIT

\* the heatmap of instance i of the current call rendered alone
SingleInstanceHeatmap(i) ==
  coordinates_to_heatmap(
    args.y_grid, args.x_grid,
    [j \in {0} |-> args.y_coordinates[i]],
    [j \in {0} |-> args.x_coordinates[i]],
    [j \in {0} |-> args.sigma[i]],
    Tensor2(1, args.channel_onehot.shape[2],
            [j \in {0} |-> args.channel_onehot.val[i]]),
    IF args.channel_weights = None THEN None
    ELSE Some([j \in {0} |-> args.channel_weights[1][i]]))

HeatInstanceIds == 0..(args.channel_onehot.shape[1] - 1)
HeatChannelIds == 0..(args.channel_onehot.shape[2] - 1)

\* C3: instances are merged by maximum, not sum: every heatmap entry is at
\* least each instance's own weighted response at that pixel and channel, and
\* is either 0 or exactly one instance's response (never the sum of two).
C3_MaxMerge ==
  call = "coordinates_to_heatmap" =>
    LET single == [i \in HeatInstanceIds |-> SingleInstanceHeatmap(i)]
    IN \A r \in DOMAIN args.y_grid : \A c \in DOMAIN args.y_grid[r] :
       \A ch \in HeatChannelIds :
         /\ ret[r][c][ch] >= 0
         /\ \A i \in HeatInstanceIds : ret[r][c][ch] >= single[i][r][c][ch]
         /\ \/ ret[r][c][ch] = 0
            \/ \E i \in HeatInstanceIds : ret[r][c][ch] = single[i][r][c][ch]

\* two instances of one channel overlap at a pixel with different positive
\* responses, and the entry is the larger one
C3_Witness ==
  /\ call = "coordinates_to_heatmap"
  /\ LET single == [i \in HeatInstanceIds |-> SingleInstanceHeatmap(i)]
     IN \E i \in HeatInstanceIds, j \in HeatInstanceIds :
        \E r \in DOMAIN args.y_grid : \E c \in DOMAIN args.y_grid[r] :
        \E ch \in HeatChannelIds :
          /\ single[j][r][c][ch] > 0
          /\ single[i][r][c][ch] > single[j][r][c][ch]
          /\ ret[r][c][ch] = single[i][r][c][ch]

\* C4: every heatmap entry is >= 0 (never -inf); without channel_weights
\* every entry is in [0, 1]; with no instances the heatmap is all zeros of
\* shape [H, W, C].
C4_NonNegative ==
  call = "coordinates_to_heatmap" =>
    /\ DOMAIN ret = DOMAIN args.y_grid
    /\ \A r \in DOMAIN args.y_grid :
         /\ DOMAIN ret[r] = DOMAIN args.y_grid[r]
         /\ \A c \in DOMAIN args.y_grid[r] :
              /\ DOMAIN ret[r][c] = HeatChannelIds
              /\ \A ch \in HeatChannelIds :
                   /\ ret[r][c][ch] >= 0
                   /\ ret[r][c][ch] # NegInf
                   /\ args.channel_weights = None => ret[r][c][ch] <= SCALE
                   /\ args.channel_onehot.shape[1] = 0 => ret[r][c][ch] = 0

C4_Witness ==
  /\ call = "coordinates_to_heatmap"
  /\ args.channel_onehot.shape[1] = 0
  /\ args.channel_onehot.shape[2] = MaxChannels
  /\ \A r \in 0..(MaxDim - 1) : \A c \in 0..(MaxDim - 2) :
     \A ch \in 0..(MaxChannels - 1) : ret[r][c][ch] = 0

\* squared pixel distance from pixel (r, c) to the cell (pr, pc)
PixelDistance2(r, c, pr, pc) == (r - pr) * (r - pr) + (c - pc) * (c - pc)

\* a call rendering one unweighted instance on a single channel,
\* channel_onehot = [[1]], centred inside the grid
SingleUnweightedCall ==
  /\ call = "coordinates_to_heatmap"
  /\ args.channel_onehot.shape = <<1, 1>>
  /\ args.channel_onehot.val[0][0] = SCALE
  /\ args.channel_weights = None
  /\ args.sigma[0] > 0
  /\ \E r \in DOMAIN args.y_grid :
       /\ r * UNIT <= args.y_coordinates[0]
       /\ args.y_coordinates[0] < (r + 1) * UNIT
       /\ \E c \in DOMAIN args.y_grid[r] :
            /\ c * UNIT <= args.x_coordinates[0]
            /\ args.x_coordinates[0] < (c + 1) * UNIT

\* the (row, col) compute_floor_offsets_with_indices returns for the instance
PeakCell ==
  compute_floor_offsets_with_indices(args.y_coordinates, args.x_coordinates,
                                     None, None).indices[0]

\* C5: a single unweighted instance inside the grid gives 1.0 at exactly the
\* cell compute_floor_offsets_with_indices returns for it, a strictly smaller
\* value at every other pixel, and never a larger value at a pixel farther
\* from that cell than at a nearer one.
C5_PeakAtFloorCell ==
  SingleUnweightedCall =>
    /\ PeakCell[0] \in DOMAIN ret
    /\ PeakCell[1] \in DOMAIN ret[PeakCell[0]]
    /\ ret[PeakCell[0]][PeakCell[1]][0] = SCALE
    /\ \A r \in DOMAIN ret : \A c \in DOMAIN ret[r] :
         /\ <<r, c>> # <<PeakCell[0], PeakCell[1]>> => ret[r][c][0] < SCALE
         /\ \A q \in DOMAIN ret : \A d \in DOMAIN ret[q] :
              PixelDistance2(r, c, PeakCell[0], PeakCell[1])
                > PixelDistance2(q, d, PeakCell[0], PeakCell[1])
              => ret[r][c][0] <= ret[q][d][0]

\* the centre (0.5, 1.5) peaks at pixel (0, 1) and decays away from it
C5_Witness ==
  /\ SingleUnweightedCall
  /\ args.y_coordinates[0] = UNIT \div 2
  /\ args.x_coordinates[0] = UNIT + UNIT \div 2
  /\ ret[0][1][0] = SCALE
  /\ ret[1][0][0] > 0
  /\ ret[1][0][0] < ret[0][0][0]
  /\ ret[0][0][0] < SCALE

\* whole-pixel cell n contains the coordinate v
InCell(v, n) == n * UNIT <= v /\ v < (n + 1) * UNIT

\* the target coordinate of point i on one axis
TargetOrSource(target, source, i) ==
  IF target = None THEN source[i] ELSE target[1][i]

\* what the returned pair must be for every point of the current call
FloorOffsetsContract ==
    /\ DOMAIN ret.indices = DOMAIN args.y_source
    /\ DOMAIN ret.offsets = DOMAIN args.y_source
    /\ \A i \in DOMAIN args.y_source :
         /\ DOMAIN ret.indices[i] = 0..1
         /\ DOMAIN ret.offsets[i] = 0..1
         /\ InCell(args.y_source[i], ret.indices[i][0])
         /\ InCell(args.x_source[i], ret.indices[i][1])
         /\ ret.offsets[i][0] =
              TargetOrSource(args.y_target, args.y_source, i)
                - ret.indices[i][0] * UNIT
         /\ ret.offsets[i][1] =
              TargetOrSource(args.x_target, args.x_source, i)
                - ret.indices[i][1] * UNIT
         /\ (args.y_target = None /\ args.x_target = None) =>
              /\ ret.offsets[i][0] >= 0 /\ ret.offsets[i][0] < UNIT
              /\ ret.offsets[i][1] >= 0 /\ ret.offsets[i][1] < UNIT
              /\ ret.indices[i][0] * UNIT + ret.offsets[i][0] = args.y_source[i]
              /\ ret.indices[i][1] * UNIT + ret.offsets[i][1] = args.x_source[i]

\* the worked example: a y source of 2.5 with an explicit y target of 5.0
\* gives index 2 and the offset named
ExampleOffset(offset) ==
  \A i \in DOMAIN args.y_source :
    (/\ args.y_source[i] = 2 * UNIT + UNIT \div 2
     /\ args.y_target # None
     /\ TargetOrSource(args.y_target, args.y_source, i) = 5 * UNIT)
    => /\ ret.indices[i][0] = 2
       /\ ret.offsets[i][0] = offset

\* C6 (amended): indices[i] = (floor(y_source[i]), floor(x_source[i])) and
\* offsets[i] = (y_target[i] - floor(y_source[i]),
\* x_target[i] - floor(x_source[i])), each target defaulting independently to
\* its source and never floored; with both targets omitted every offset
\* component is in [0, 1) and indices + offsets is the source point; source
\* 2.5 with target 5.0 gives index 2 and offset 3.0.
C6_FloorOffsets ==
  call = "compute_floor_offsets_with_indices" =>
    FloorOffsetsContract /\ ExampleOffset(3 * UNIT)

\* C6 as stated: the same contract, with the example's offset given as 2.5
C6_AsStated ==
  call = "compute_floor_offsets_with_indices" =>
    FloorOffsetsContract /\ ExampleOffset(2 * UNIT + UNIT \div 2)

\* source y = 2.5 with target 5.0 gives index 2 and offset 3.0, next to a
\* negative fractional x source (-1.5 -> index -2) with the target omitted
C6_Witness ==
  /\ call = "compute_floor_offsets_with_indices"
  /\ args.y_source[0] = 2 * UNIT + UNIT \div 2
  /\ args.y_target = Some([i \in DOMAIN args.y_source |-> 5 * UNIT])
  /\ args.x_source[0] = -(UNIT + UNIT \div 2)
  /\ args.x_target = None
  /\ ret.indices[0] = [k \in 0..1 |-> IF k = 0 THEN 2 ELSE -2]
  /\ ret.offsets[0][0] = 3 * UNIT
  /\ ret.offsets[0][1] = 2 * UNIT - (UNIT + UNIT \div 2)

\* ---- get_valid_keypoint_mask_for_class

KeypointCall == call = "get_valid_keypoint_mask_for_class"
KpInstanceIds == 0..(args.keypoint_coordinates.shape[1] - 1)

\* the output positions, and the input column each one shows
KpPositions ==
  IF args.keypoint_indices = None
  THEN 0..(args.keypoint_coordinates.shape[2] - 1)
  ELSE DOMAIN args.keypoint_indices[1]
KpColumn(p) ==
  IF args.keypoint_indices = None THEN p ELSE args.keypoint_indices[1][p]

\* the input coordinate d (0 = y, 1 = x) shown at output position p
KpInput(i, p, d) == args.keypoint_coordinates.val[i][KpColumn(p)][d]

\* the weight of instance i: class_weights[i], or 1 when omitted
KpWeight(i) ==
  IF args.class_weights = None THEN SCALE ELSE args.class_weights[1][i]

\* the returned coordinate array holds no NaN
NoNanReturned ==
  \A i \in KpInstanceIds : \A p \in KpPositions : \A d \in 0..1 :
    ret.keypoints_nan_to_zeros[i][p][d] # NaN

\* C7 as stated: a NaN in the y channel, the x channel or both gives
\* mask = 0 and sanitized = (0, 0); no NaN is returned.
C7_AsStated ==
  KeypointCall =>
    /\ NoNanReturned
    /\ \A i \in KpInstanceIds : \A p \in KpPositions :
         (KpInput(i, p, 0) = NaN \/ KpInput(i, p, 1) = NaN) =>
           /\ ret.mask[i][p] = 0
           /\ ret.keypoints_nan_to_zeros[i][p][0] = 0
           /\ ret.keypoints_nan_to_zeros[i][p][1] = 0

\* C7 (amended): a NaN in the y channel gives mask = 0 whatever the class
\* membership and weight; each NaN channel is replaced by 0 on its own and
\* each other channel is returned unchanged, so sanitized = (0, 0) when both
\* channels are NaN; no NaN is returned for any input.
C7_NanMasked ==
  KeypointCall =>
    /\ NoNanReturned
    /\ \A i \in KpInstanceIds : \A p \in KpPositions :
         /\ KpInput(i, p, 0) = NaN => ret.mask[i][p] = 0
         /\ \A d \in 0..1 :
              ret.keypoints_nan_to_zeros[i][p][d] =
                (IF KpInput(i, p, d) = NaN THEN 0 ELSE KpInput(i, p, d))

\* a member of the class with a weight, one keypoint NaN in both channels and
\* another NaN in y only
C7_Witness ==
  /\ KeypointCall
  /\ args.keypoint_indices = None
  /\ args.class_weights # None
  /\ args.class_onehot[0][args.class_id] = SCALE
  /\ KpInput(0, 0, 0) = NaN /\ KpInput(0, 0, 1) = NaN
  /\ KpInput(0, 1, 0) = NaN /\ KpInput(0, 1, 1) # NaN
  /\ ret.mask[0][0] = 0 /\ ret.mask[0][1] = 0
  /\ ret.keypoints_nan_to_zeros[0][0] = [d \in 0..1 |-> 0]
  /\ ret.keypoints_nan_to_zeros[0][1][1] = KpInput(0, 1, 1)

\* instance i belongs to the class of the call
KpMember(i) == args.class_onehot[i][args.class_id] # 0

\* C8 as stated: every mask entry is 0 or the instance's weight, for hard and
\* soft class_onehot alike; it is the weight exactly when the instance
\* belongs to class_id and the keypoint is not NaN.
C8_AsStated ==
  KeypointCall =>
    \A i \in KpInstanceIds : \A p \in KpPositions :
      /\ ret.mask[i][p] \in {0, KpWeight(i)}
      /\ ret.mask[i][p] = KpWeight(i) <=>
           (KpMember(i) /\ KpInput(i, p, 0) # NaN)

\* C8 (amended): mask[i, k] is class_onehot[i, class_id] times the instance's
\* weight when the keypoint's y coordinate is not NaN, and 0 when it is; so
\* with class_onehot[i, class_id] in {0, 1} the entry is 0 or the weight, and
\* is the weight when the entry is 1 and y is not NaN.
C8_MaskValues ==
  KeypointCall =>
    \A i \in KpInstanceIds : \A p \in KpPositions :
      /\ KpInput(i, p, 0) = NaN => ret.mask[i][p] = 0
      /\ KpInput(i, p, 0) # NaN =>
           ret.mask[i][p] * SCALE =
             args.class_onehot[i][args.class_id] * KpWeight(i)
      /\ args.class_onehot[i][args.class_id] \in {0, SCALE} =>
           /\ ret.mask[i][p] \in {0, KpWeight(i)}
           /\ (args.class_onehot[i][args.class_id] = SCALE
               /\ KpInput(i, p, 0) # NaN) => ret.mask[i][p] = KpWeight(i)
           /\ (args.class_onehot[i][args.class_id] = 0
               \/ KpInput(i, p, 0) = NaN) => ret.mask[i][p] = 0

\* two weighted instances, a member with a valid and a NaN keypoint and a
\* non-member with a valid keypoint
C8_Witness ==
  /\ KeypointCall
  /\ args.keypoint_indices = None
  /\ args.class_weights # None
  /\ args.keypoint_coordinates.shape[1] = 2
  /\ args.class_onehot[0][args.class_id] = SCALE
  /\ args.class_onehot[1][args.class_id] = 0
  /\ KpInput(0, 0, 0) # NaN /\ KpInput(0, 1, 0) = NaN /\ KpInput(1, 0, 0) # NaN
  /\ ret.mask[0][0] = 2 * SCALE
  /\ ret.mask[0][1] = 0
  /\ ret.mask[1][0] = 0

\* the result of the current call made without keypoint_indices
KpUngathered ==
  get_valid_keypoint_mask_for_class(args.keypoint_coordinates, args.class_id,
    args.class_onehot, args.class_weights, None)

\* C9: with keypoint_indices = [j_0 .. j_{m-1}] the mask has shape [N, m] and
\* the coordinates shape [N, m, 2], and position p of both equals column j_p
\* of the call without keypoint_indices.
C9_GatherColumns ==
  (KeypointCall /\ args.keypoint_indices # None) =>
   LET full == KpUngathered IN
    /\ DOMAIN ret.mask = KpInstanceIds
    /\ DOMAIN ret.keypoints_nan_to_zeros = KpInstanceIds
    /\ \A i \in KpInstanceIds :
         /\ DOMAIN ret.mask[i] = DOMAIN args.keypoint_indices[1]
         /\ DOMAIN ret.keypoints_nan_to_zeros[i] = DOMAIN args.keypoint_indices[1]
         /\ \A p \in DOMAIN args.keypoint_indices[1] :
              /\ ret.mask[i][p] = full.mask[i][args.keypoint_indices[1][p]]
              /\ DOMAIN ret.keypoints_nan_to_zeros[i][p] = 0..1
              /\ ret.keypoints_nan_to_zeros[i][p] =
                   full.keypoints_nan_to_zeros[i][args.keypoint_indices[1][p]]

\* keypoint_indices = [1, 0] swaps two columns that differ
C9_Witness ==
  /\ KeypointCall
  /\ args.keypoint_indices = Some([p \in 0..1 |-> 1 - p])
  /\ KpUngathered.mask[0][0] # KpUngathered.mask[0][1]
  /\ ret.mask[0][0] = KpUngathered.mask[0][1]
  /\ ret.mask[0][1] = KpUngathered.mask[0][0]
  /\ ret.keypoints_nan_to_zeros[0][0] = KpUngathered.keypoints_nan_to_zeros[0][1]

\* ---- blackout_pixel_weights_by_box_regions

BlackoutCall == call = "blackout_pixel_weights_by_box_regions"

\* pixel (r, c) lies in box i, both ends inclusive
PixelInBox(r, c, i) ==
  /\ args.boxes[i][0] <= r * UNIT /\ r * UNIT <= args.boxes[i][2]
  /\ args.boxes[i][1] <= c * UNIT /\ c * UNIT <= args.boxes[i][3]

\* C1: with at least one box, every pixel is 0.0 if some box selected by
\* blackout contains it (ends inclusive) and 1.0 otherwise; unselected boxes
\* change no pixel.
C1_BlackoutRegions ==
  (BlackoutCall /\ DOMAIN args.boxes # {}) =>
    /\ DOMAIN ret = 0..(args.height - 1)
    /\ \A r \in 0..(args.height - 1) :
         /\ DOMAIN ret[r] = 0..(args.width - 1)
         /\ \A c \in 0..(args.width - 1) :
              ret[r][c] =
                (IF \E i \in DOMAIN args.boxes :
                      args.blackout[i] /\ PixelInBox(r, c, i)
                 THEN 0 ELSE SCALE)

\* box (0, 0, 1, 1) selected, next to an unselected box covering row 2
C1_Witness ==
  /\ BlackoutCall
  /\ DOMAIN args.boxes = 0..1
  /\ args.boxes[0] = [k \in 0..3 |-> IF k < 2 THEN 0 ELSE UNIT]
  /\ args.blackout[0]
  /\ ~args.blackout[1]
  /\ PixelInBox(2, 0, 1)
  /\ \A r \in 0..1 : \A c \in 0..1 : ret[r][c] = 0
  /\ ret[2][0] = SCALE
  /\ ret[2][1] = SCALE

\* C2: the mask is all 1.0 both when there is no box and when no box is
\* selected by blackout.
C2_IdentityWhenNothingSelected ==
  (BlackoutCall /\ \A i \in DOMAIN args.boxes : ~args.blackout[i]) =>
    \A r \in 0..(args.height - 1) : \A c \in 0..(args.width - 1) :
      ret[r][c] = SCALE

====
